---- MODULE Spec2Model ----
(***************************************************************************)
(* Model of fireworks/features/jobpack.py: the node allocator              *)
(* (split_node_lists), the job-packing orchestrator                        *)
(* (launch_job_packing_processes, launch_rapidfire_processes) and the      *)
(* liveness monitor thread (ping_launch_jp).                               *)
(*                                                                         *)
(* The module is Python 2 code (2013): "/" on two ints is floor division.  *)
(* Node identifiers are modelled by naturals; their numeric order stands   *)
(* for the string order used by sorted().  None is modelled by a record    *)
(* with isNone = TRUE for lists and by 0 for launch ids (both are falsy    *)
(* in the "if x:" tests of the source).                                    *)
(***************************************************************************)
EXTENDS Naturals, Integers, Sequences, FiniteSets

VARIABLES
    num_rockets,      \* argument: number of sub jobs
    total_node_list,  \* argument: node list of the whole job, or None
    ppn,              \* argument: processors per node
    serial_mode,      \* argument: serial mode flag
    results,          \* outcomes of the split_node_lists calls made so far
    pc,               \* position of launch_job_packing_processes
    raisedAt,         \* line group at which the orchestrator raised, or "none"
    service,          \* manager server: "notstarted", "running", "shutdown"
    shutdownCalls,    \* number of m.shutdown() calls
    processes,        \* Process objects created by launch_rapidfire_processes
    locks,            \* number of multiprocessing.Lock objects created
    joined,           \* number of processes joined so far (for p in processes)
    ping_stop,        \* threading.Event ping_stop: is it set
    running_ids,      \* the Running_IDs dict served by the manager: pid -> lid
    monState,         \* position of the ping thread (ping_launch_jp)
    monError,         \* call whose exception ended the ping thread, or "none"
    snapshot,         \* m.Running_IDs().items() of the current scan: pid -> lid
    todo,             \* pids of snapshot the for loop has not reached yet
    cur,              \* pid of the entry the for loop is at (0: none)
    pinged,           \* pids ping_launch was invoked for in the current scan
    probedDead        \* pids whose os.kill raised OSError in the current scan

inputVars == <<num_rockets, total_node_list, ppn, serial_mode>>
orchVars  == <<pc, raisedAt, service, shutdownCalls, processes, locks, joined, ping_stop>>
monVars   == <<monState, monError, snapshot, todo, cur, pinged, probedDead>>
vars == <<num_rockets, total_node_list, ppn, serial_mode, results,
          pc, raisedAt, service, shutdownCalls, processes, locks, joined, ping_stop,
          running_ids,
          monState, monError, snapshot, todo, cur, pinged, probedDead>>

----------------------------------------------------------------------------
(* Bounds *)

NumNodes == 4          \* node identifiers 1..NumNodes
MaxLen == 4            \* longest total_node_list of the allocator runs
MaxRockets == 4        \* largest num_rockets of the allocator runs
MaxCalls == 2          \* split_node_lists calls per allocator run
PpnValues == {2, 24}
OrchRockets == 2       \* largest num_rockets of the orchestrator runs
OrchNodes == 1         \* node identifiers of the orchestrator runs
OrchLen == 1           \* longest total_node_list of the orchestrator runs
DefaultPpn == 24       \* ppn=24

Nodes == 1..NumNodes

----------------------------------------------------------------------------
(* Python values *)

NoneList == [isNone |-> TRUE, list |-> <<>>]
ListOf(s) == [isNone |-> FALSE, list |-> s]

\* truth value of a list-or-None ("if total_node_list:")
Truthy(l) == (~l.isNone) /\ Len(l.list) > 0

\* set(total_node_list)
SetOf(s) == {s[i] : i \in 1..Len(s)}

\* the orders in which list(set(...)) may enumerate the set
RECURSIVE ListsOfSet(_)
ListsOfSet(S) ==
    IF S = {} THEN {<<>>}
    ELSE UNION {{<<x>> \o l : l \in ListsOfSet(S \ {x})} : x \in S}

\* (variant: descending order)
RECURSIVE Insert_desc(_, _)
Insert_desc(x, s) ==
    IF s = <<>> THEN <<x>>
    ELSE IF x >= Head(s) THEN <<x>> \o s
    ELSE <<Head(s)>> \o Insert_desc(x, Tail(s))

RECURSIVE Insert(_, _)
Insert(x, s) ==
    IF s = <<>> THEN <<x>>
    ELSE IF x <= Head(s) THEN <<x>> \o s
    ELSE <<Head(s)>> \o Insert(x, Tail(s))

RECURSIVE sorted(_)
sorted(s) == IF s = <<>> THEN <<>> ELSE Insert(Head(s), sorted(Tail(s)))

\* (variant: each element k times in a row, n1 n1 n2 n2)
RECURSIVE Repeat_blocks(_, _)
Repeat_blocks(s, k) ==
    IF s = <<>> THEN <<>>
    ELSE [i \in 1..(IF k <= 0 THEN 0 ELSE k) |-> Head(s)] \o Repeat_blocks(Tail(s), k)

\* list * k
RECURSIVE Repeat(_, _)
Repeat(s, k) == IF k <= 0 THEN <<>> ELSE s \o Repeat(s, k - 1)

\* (variant: the slice end taken inclusively, list[i:j+1])
Slice_inclusive(s, i, j) ==
    LET hi == IF j + 1 > Len(s) THEN Len(s) ELSE j + 1
    IN  IF i >= hi THEN <<>> ELSE [k \in 1..(hi - i) |-> s[i + k]]

\* list[i:j] with 0 <= i
Slice(s, i, j) ==
    LET hi == IF j > Len(s) THEN Len(s) ELSE j
    IN  IF i >= hi THEN <<>> ELSE [k \in 1..(hi - i) |-> s[i + k]]

\* range(0, n, step), step > 0
Range0(n, step) == [k \in 1..((n + step - 1) \div step) |-> (k - 1) * step]

Ok(nl, np) == [kind |-> "ok", node_lists |-> nl, sub_nproc_list |-> np]
Raised(e) == [kind |-> e, node_lists |-> <<>>, sub_nproc_list |-> <<>>]

----------------------------------------------------------------------------
(* split_node_lists; set_order is the enumeration order of set(total_node_list) *)

\* (variant: the sorted() call left out)
orig_node_list_unsorted(set_order) == set_order

\* line 162, line 174: orig_node_list = sorted(list(set(total_node_list)))
orig_node_list_of(set_order) == sorted(set_order)

\* (variant: the divisibility test of lines 165-166 left out)
SplitSerial_unchecked(nr, tnl, set_order) ==
    IF Truthy(tnl) THEN
        LET orig_node_list == orig_node_list_of(set_order)
            nnodes == Len(orig_node_list)
            job_per_node == nr \div nnodes
            rep == Repeat(orig_node_list, job_per_node)
        IN  Ok([i \in 1..Len(rep) |-> ListOf(<<rep[i]>>)], [i \in 1..nr |-> 1])
    ELSE Ok([i \in 1..nr |-> NoneList], [i \in 1..nr |-> 1])

\* lines 160-171: the serial_mode branch
SplitSerial(nr, tnl, set_order) ==
    IF Truthy(tnl) THEN
        LET orig_node_list == orig_node_list_of(set_order)
            nnodes == Len(orig_node_list)
            job_per_node == nr \div nnodes
        IN  IF job_per_node * nnodes # nr THEN Raised("ValueError")
            ELSE LET rep == Repeat(orig_node_list, job_per_node)
                 IN  Ok([i \in 1..Len(rep) |-> ListOf(<<rep[i]>>)],
                        [i \in 1..nr |-> 1])
    ELSE Ok([i \in 1..nr |-> NoneList], [i \in 1..nr |-> 1])

\* (variant: the divisibility test of lines 177-178 left out; range() itself
\* raises ValueError on a zero step)
SplitParallel_unchecked(nr, tnl, p, set_order) ==
    IF Truthy(tnl) THEN
        LET orig_node_list == orig_node_list_of(set_order)
            nnodes == Len(orig_node_list)
        IN  IF nr = 0 THEN Raised("ZeroDivisionError")
            ELSE LET sub_nnodes == nnodes \div nr
                 IN  IF sub_nnodes = 0 THEN Raised("ValueError")
                     ELSE LET starts == Range0(nnodes, sub_nnodes)
                          IN  Ok([j \in 1..Len(starts) |->
                                     ListOf(Slice(orig_node_list, starts[j], starts[j] + sub_nnodes))],
                                 [i \in 1..nr |-> sub_nnodes * p])
    ELSE Ok([i \in 1..nr |-> NoneList], [i \in 1..nr |-> p])

\* lines 172-183: the parallel branch
SplitParallel(nr, tnl, p, set_order) ==
    IF Truthy(tnl) THEN
        LET orig_node_list == orig_node_list_of(set_order)
            nnodes == Len(orig_node_list)
        IN  IF nr = 0 THEN Raised("ZeroDivisionError")
            ELSE LET sub_nnodes == nnodes \div nr
                 IN  IF sub_nnodes * nr # nnodes THEN Raised("ValueError")
                     ELSE LET starts == Range0(nnodes, sub_nnodes)
                          IN  Ok([j \in 1..Len(starts) |->
                                     ListOf(Slice(orig_node_list, starts[j], starts[j] + sub_nnodes))],
                                 [i \in 1..nr |-> sub_nnodes * p])
    ELSE Ok([i \in 1..nr |-> NoneList], [i \in 1..nr |-> p])

\* (variant: "if total_node_list is not None": an empty list divides by zero in
\* serial mode and gives range() a zero step in parallel mode)
split_node_lists_is_not_None(nr, tnl, p, sm, set_order) ==
    IF (~tnl.isNone) /\ tnl.list = <<>>
    THEN IF sm \/ nr = 0 THEN Raised("ZeroDivisionError") ELSE Raised("ValueError")
    ELSE IF sm THEN SplitSerial(nr, tnl, set_order)
         ELSE SplitParallel(nr, tnl, p, set_order)

\* (variant: the serial_mode test inverted)
split_node_lists_inverted(nr, tnl, p, sm, set_order) ==
    IF ~sm THEN SplitSerial(nr, tnl, set_order)
    ELSE SplitParallel(nr, tnl, p, set_order)

\* lines 151-184
split_node_lists(nr, tnl, p, sm, set_order) ==
    IF sm THEN SplitSerial(nr, tnl, set_order)
    ELSE SplitParallel(nr, tnl, p, set_order)

\* (variant: list(total_node_list), the duplicates kept)
SetOrders_list(tnl) == IF tnl.isNone THEN {<<>>} ELSE {tnl.list}

\* the set enumeration orders a call may see
SetOrders(tnl) == IF tnl.isNone THEN {<<>>} ELSE ListsOfSet(SetOf(tnl.list))

----------------------------------------------------------------------------
(* Inputs and initial state *)

RECURSIVE SeqsUpTo(_, _)
SeqsUpTo(S, n) ==
    IF n = 0 THEN {<<>>}
    ELSE LET shorter == SeqsUpTo(S, n - 1)
         IN  shorter \cup {Append(s, x) : s \in {t \in shorter : Len(t) = n - 1}, x \in S}

NodeListArgs(S, n) == {NoneList} \cup {ListOf(s) : s \in SeqsUpTo(S, n)}

\* launch ids: None, and the launch a worker runs (one per worker)
NoLid == 0
LidOf(i) == i

EmptyDict == [p \in {} |-> NoLid]

Rest ==
    /\ results = <<>>
    /\ raisedAt = "none"
    /\ service = "notstarted"
    /\ shutdownCalls = 0
    /\ processes = <<>>
    /\ locks = 0
    /\ joined = 0
    /\ ping_stop = FALSE
    /\ running_ids = EmptyDict
    /\ monState = "notstarted"
    /\ monError = "none"
    /\ snapshot = EmptyDict
    /\ todo = {}
    /\ cur = 0
    /\ pinged = {}
    /\ probedDead = {}

\* a caller of launch_job_packing_processes
Init ==
    /\ num_rockets \in 0..OrchRockets
    /\ total_node_list \in NodeListArgs(1..OrchNodes, OrchLen)
    /\ ppn = DefaultPpn
    /\ serial_mode \in BOOLEAN
    /\ pc = "split"
    /\ Rest

\* a caller of split_node_lists alone
InitSplit ==
    /\ num_rockets \in 0..MaxRockets
    /\ total_node_list \in NodeListArgs(Nodes, MaxLen)
    /\ ppn \in PpnValues
    /\ serial_mode \in BOOLEAN
    /\ pc = "caller"
    /\ Rest

----------------------------------------------------------------------------
(* Calls of split_node_lists by a caller other than the orchestrator *)

CallSplit ==
    /\ pc = "caller"
    /\ Len(results) < MaxCalls
    /\ \E set_order \in SetOrders(total_node_list) :
          results' = Append(results,
              split_node_lists(num_rockets, total_node_list, ppn, serial_mode, set_order))
    /\ UNCHANGED <<inputVars, orchVars, running_ids, monVars>>

NextSplit == CallSplit

SpecSplit == InitSplit /\ [][NextSplit]_vars

----------------------------------------------------------------------------
(* launch_job_packing_processes *)

\* (variant: the allocation error swallowed, the launch goes on with no shares)
OrchSplit_swallow ==
    /\ pc = "split"
    /\ \E set_order \in SetOrders(total_node_list) :
          results' = <<split_node_lists(num_rockets, total_node_list, ppn, serial_mode, set_order)>>
    /\ pc' = "run_manager"
    /\ UNCHANGED <<inputVars, raisedAt, service, shutdownCalls, processes, locks, joined,
                   ping_stop, running_ids, monVars>>

\* line 200: node_lists, sub_nproc_list = split_node_lists(...)
OrchSplit ==
    /\ pc = "split"
    /\ \E set_order \in SetOrders(total_node_list) :
          LET r == split_node_lists(num_rockets, total_node_list, ppn, serial_mode, set_order)
          IN  /\ results' = <<r>>
              /\ IF r.kind = "ok"
                 THEN pc' = "run_manager" /\ raisedAt' = raisedAt
                 ELSE pc' = "raised" /\ raisedAt' = "split"
    /\ UNCHANGED <<inputVars, service, shutdownCalls, processes, locks, joined, ping_stop,
                   running_ids, monVars>>

\* line 201: m = run_manager_server(launchpad_file, password); m.start() returned
RunManager ==
    /\ pc = "run_manager"
    /\ service' = "running"
    /\ pc' = "create_processes"
    /\ UNCHANGED <<inputVars, results, raisedAt, shutdownCalls, processes, locks, joined,
                   ping_stop, running_ids, monVars>>

\* line 201: create_launchpad or m.start() raises, no server is left
RunManagerFail ==
    /\ pc = "run_manager"
    /\ pc' = "raised"
    /\ raisedAt' = "run_manager"
    /\ UNCHANGED <<inputVars, results, service, shutdownCalls, processes, locks, joined,
                   ping_stop, running_ids, monVars>>

\* zip(node_lists, sub_nproc_list)
ZipLen(a, b) == IF Len(a) < Len(b) THEN Len(a) ELSE Len(b)

\* (variant: a Lock() made inside the comprehension, one per Process)
CreateProcesses_lock_each ==
    /\ pc = "create_processes"
    /\ locks' = locks + ZipLen(results[1].node_lists, results[1].sub_nproc_list)
    /\ processes' = [i \in 1..ZipLen(results[1].node_lists, results[1].sub_nproc_list) |->
                        [state |-> "created",
                         node_list |-> results[1].node_lists[i],
                         sub_nproc |-> results[1].sub_nproc_list[i],
                         port |-> "m.address[1]",
                         password |-> "password",
                         lock |-> locks + i]]
    /\ pc' = "start_processes"
    /\ UNCHANGED <<inputVars, results, raisedAt, service, shutdownCalls, joined, ping_stop,
                   running_ids, monVars>>

\* lines 142-144: the lock and the Process objects with their args
CreateProcesses ==
    /\ pc = "create_processes"
    /\ locks' = locks + 1
    /\ processes' = [i \in 1..ZipLen(results[1].node_lists, results[1].sub_nproc_list) |->
                        [state |-> "created",
                         node_list |-> results[1].node_lists[i],
                         sub_nproc |-> results[1].sub_nproc_list[i],
                         port |-> "m.address[1]",
                         password |-> "password",
                         lock |-> locks + 1]]
    /\ pc' = "start_processes"
    /\ UNCHANGED <<inputVars, results, raisedAt, service, shutdownCalls, joined, ping_stop,
                   running_ids, monVars>>

Created == {i \in 1..Len(processes) : processes[i].state = "created"}
NextToStart == CHOOSE i \in Created : \A j \in Created : i <= j

\* lines 145-147: p.start() of the next process
StartProcess ==
    /\ pc = "start_processes"
    /\ Created # {}
    /\ processes' = [processes EXCEPT ![NextToStart].state = "started"]
    /\ UNCHANGED <<inputVars, results, pc, raisedAt, service, shutdownCalls, locks, joined,
                   ping_stop, running_ids, monVars>>

\* line 146: p.start() raises (fork fails); launch_rapidfire_processes propagates it
StartProcessFail ==
    /\ pc = "start_processes"
    /\ Created # {}
    /\ pc' = "raised"
    /\ raisedAt' = "launch"
    /\ UNCHANGED <<inputVars, results, service, shutdownCalls, processes, locks, joined,
                   ping_stop, running_ids, monVars>>

\* line 148: return processes
LaunchReturn ==
    /\ pc = "start_processes"
    /\ Created = {}
    /\ pc' = "start_ping"
    /\ UNCHANGED <<inputVars, results, raisedAt, service, shutdownCalls, processes, locks,
                   joined, ping_stop, running_ids, monVars>>

\* lines 206-208: ping_stop = Event(); ping_thread.start()
StartPing ==
    /\ pc = "start_ping"
    /\ monState' = "connect"
    /\ pc' = "join"
    /\ UNCHANGED <<inputVars, results, raisedAt, service, shutdownCalls, processes, locks,
                   joined, ping_stop, running_ids, monError, snapshot, todo, cur,
                   pinged, probedDead>>

\* line 208: ping_thread.start() raises (no thread can be created)
StartPingFail ==
    /\ pc = "start_ping"
    /\ pc' = "raised"
    /\ raisedAt' = "start_ping"
    /\ UNCHANGED <<inputVars, results, service, shutdownCalls, processes, locks, joined,
                   ping_stop, running_ids, monVars>>

\* (variant: join() that returns without waiting for the process)
Join_nowait ==
    /\ pc = "join"
    /\ joined < Len(processes)
    /\ joined' = joined + 1
    /\ UNCHANGED <<inputVars, results, pc, raisedAt, service, shutdownCalls, processes, locks,
                   ping_stop, running_ids, monVars>>

\* lines 210-211: p.join() of the next process returns once it has exited
Join ==
    /\ pc = "join"
    /\ joined < Len(processes)
    /\ processes[joined + 1].state = "exited"
    /\ joined' = joined + 1
    /\ UNCHANGED <<inputVars, results, pc, raisedAt, service, shutdownCalls, processes, locks,
                   ping_stop, running_ids, monVars>>

\* line 212: ping_stop.set()
SetStop ==
    /\ pc = "join"
    /\ joined = Len(processes)
    /\ ping_stop' = TRUE
    /\ pc' = "shutdown"
    /\ UNCHANGED <<inputVars, results, raisedAt, service, shutdownCalls, processes, locks,
                   joined, running_ids, monVars>>

\* line 213: m.shutdown()
Shutdown ==
    /\ pc = "shutdown"
    /\ service' = "shutdown"
    /\ shutdownCalls' = shutdownCalls + 1
    /\ pc' = "done"
    /\ UNCHANGED <<inputVars, results, raisedAt, processes, locks, joined, ping_stop,
                   running_ids, monVars>>

----------------------------------------------------------------------------
(* Worker processes (rapidfire_process); the pid of processes[i] is i *)

DictSet(d, k, v) == [p \in (DOMAIN d) \cup {k} |-> IF p = k THEN v ELSE d[p]]

\* the worker records the launch it runs, or None, under its own pid
WorkerWrite(i, v) ==
    /\ processes[i].state = "started"
    /\ service = "running"
    /\ IF i \in DOMAIN running_ids THEN running_ids[i] # v ELSE TRUE
    /\ running_ids' = DictSet(running_ids, i, v)
    /\ UNCHANGED <<inputVars, results, orchVars, monVars>>

\* line 125: rapidfire returns or the process dies
WorkerExit(i) ==
    /\ processes[i].state = "started"
    /\ processes' = [processes EXCEPT ![i].state = "exited"]
    /\ UNCHANGED <<inputVars, results, pc, raisedAt, service, shutdownCalls, locks, joined,
                   ping_stop, running_ids, monVars>>

----------------------------------------------------------------------------
(* ping_launch_jp, the ping thread *)

Running == {"connect", "loop", "snapshot", "scan", "probe", "ping", "wait"}

MonitorRaise(what) ==
    /\ monState' = "raised"
    /\ monError' = what

\* lines 84-86: m.connect(); lp = m.LaunchPad()
MonitorConnect ==
    /\ monState = "connect"
    /\ IF service = "running"
       THEN monState' = "loop" /\ monError' = monError
       ELSE MonitorRaise("connect")
    /\ UNCHANGED <<inputVars, results, orchVars, running_ids, snapshot, todo, cur,
                   pinged, probedDead>>

\* line 87: while not stop_event.is_set()
MonitorLoop ==
    /\ monState = "loop"
    /\ monState' = IF ping_stop THEN "stopped" ELSE "snapshot"
    /\ UNCHANGED <<inputVars, results, orchVars, running_ids, monError, snapshot, todo, cur, pinged, probedDead>>

\* (variant: the items() list taken once and reused by later scans)
MonitorSnapshot_stale ==
    /\ monState = "snapshot"
    /\ IF service = "running"
       THEN /\ snapshot' = IF snapshot = EmptyDict THEN running_ids ELSE snapshot
            /\ todo' = DOMAIN snapshot'
            /\ pinged' = {}
            /\ probedDead' = {}
            /\ monState' = "scan"
            /\ monError' = monError
       ELSE /\ MonitorRaise("Running_IDs")
            /\ UNCHANGED <<snapshot, todo, pinged, probedDead>>
    /\ cur' = 0
    /\ UNCHANGED <<inputVars, results, orchVars, running_ids>>

\* line 88: m.Running_IDs().items(), a copy of the dict taken through the proxy
MonitorSnapshot ==
    /\ monState = "snapshot"
    /\ IF service = "running"
       THEN /\ snapshot' = running_ids
            /\ todo' = DOMAIN running_ids
            /\ pinged' = {}
            /\ probedDead' = {}
            /\ monState' = "scan"
            /\ monError' = monError
       ELSE /\ MonitorRaise("Running_IDs")
            /\ UNCHANGED <<snapshot, todo, pinged, probedDead>>
    /\ cur' = 0
    /\ UNCHANGED <<inputVars, results, orchVars, running_ids>>

\* (variant: the "if lid:" test left out)
MonitorNext_nolidtest ==
    /\ monState = "scan"
    /\ todo # {}
    /\ \E pid \in todo :
          /\ todo' = todo \ {pid}
          /\ cur' = pid
          /\ monState' = "probe"
    /\ UNCHANGED <<inputVars, results, orchVars, running_ids, monError, snapshot,
                   pinged, probedDead>>

\* lines 88-89: the for loop takes the next entry, in the dict's order; "if lid:"
MonitorNext ==
    /\ monState = "scan"
    /\ todo # {}
    /\ \E pid \in todo :
          /\ todo' = todo \ {pid}
          /\ cur' = pid
          /\ monState' = IF snapshot[pid] # NoLid THEN "probe" ELSE "scan"
    /\ UNCHANGED <<inputVars, results, orchVars, running_ids, monError, snapshot,
                   pinged, probedDead>>

\* line 88: the for loop is exhausted
MonitorScanEnd ==
    /\ monState = "scan"
    /\ todo = {}
    /\ monState' = "wait"
    /\ cur' = 0
    /\ UNCHANGED <<inputVars, results, orchVars, running_ids, monError, snapshot, todo,
                   pinged, probedDead>>

\* os.kill(pid, 0): a started process exists; an exited one exists until it is
\* reaped (or its pid is taken again), and is gone otherwise
ProbeOutcomes(pid) ==
    IF processes[pid].state = "started" THEN {"exists"} ELSE {"exists", "OSError"}

\* (variant: no except clause around os.kill)
MonitorProbe_uncaught ==
    /\ monState = "probe"
    /\ \E o \in ProbeOutcomes(cur) :
          IF o = "exists"
          THEN monState' = "ping" /\ probedDead' = probedDead /\ monError' = monError
          ELSE MonitorRaise("os.kill") /\ probedDead' = probedDead \cup {cur}
    /\ UNCHANGED <<inputVars, results, orchVars, running_ids, snapshot, todo, cur, pinged>>

\* lines 91, 93-94: os.kill(pid, 0), OSError caught
MonitorProbe ==
    /\ monState = "probe"
    /\ \E o \in ProbeOutcomes(cur) :
          IF o = "exists"
          THEN monState' = "ping" /\ probedDead' = probedDead
          ELSE monState' = "scan" /\ probedDead' = probedDead \cup {cur}
    /\ UNCHANGED <<inputVars, results, orchVars, running_ids, monError, snapshot, todo, cur, pinged>>

\* what lp.ping_launch(lid) may do: return, raise OSError, raise anything else
PingOutcomes == IF service = "running" THEN {"ok", "OSError", "error"} ELSE {"error"}

\* the except clause of lines 93-94
Caught(o) == o = "OSError"

\* lines 92-94: lp.ping_launch(lid)
MonitorPing ==
    /\ monState = "ping"
    /\ pinged' = pinged \cup {cur}
    /\ \E o \in PingOutcomes :
          IF o = "ok" \/ Caught(o)
          THEN monState' = "scan" /\ monError' = monError
          ELSE MonitorRaise("ping_launch")
    /\ UNCHANGED <<inputVars, results, orchVars, running_ids, snapshot, todo, cur,
                   probedDead>>

\* line 96: stop_event.wait(PING_TIME_SECS) returns, on the timeout or the event
MonitorWait ==
    /\ monState = "wait"
    /\ monState' = "loop"
    /\ UNCHANGED <<inputVars, results, orchVars, running_ids, monError, snapshot, todo, cur, pinged, probedDead>>

----------------------------------------------------------------------------

Orchestrator ==
    \/ OrchSplit
    \/ RunManager
    \/ RunManagerFail
    \/ CreateProcesses
    \/ StartProcess
    \/ StartProcessFail
    \/ LaunchReturn
    \/ StartPing
    \/ StartPingFail
    \/ Join
    \/ SetStop
    \/ Shutdown

Worker ==
    \E i \in 1..Len(processes) :
        \/ \E v \in {LidOf(i), NoLid} : WorkerWrite(i, v)
        \/ WorkerExit(i)

Monitor ==
    \/ MonitorConnect
    \/ MonitorLoop
    \/ MonitorSnapshot
    \/ MonitorNext
    \/ MonitorScanEnd
    \/ MonitorProbe
    \/ MonitorPing
    \/ MonitorWait

Next == Orchestrator \/ Worker \/ Monitor

Spec == Init /\ [][Next]_vars

\* the threads of the orchestrator process are scheduled: the main thread and
\* the ping thread each take their next step when they can (stop_event.wait
\* returns after PING_TIME_SECS at the latest)
SpecFair == Spec /\ WF_vars(Orchestrator) /\ WF_vars(Monitor)

AnyWorkerExit == \E i \in 1..Len(processes) : WorkerExit(i)

\* ... and every worker process ends (rapidfire returns)
SpecTerm == SpecFair /\ WF_vars(AnyWorkerExit)

----------------------------------------------------------------------------
(* Properties of split_node_lists, checked under SpecSplit *)

DistinctNodes == SetOf(total_node_list.list)
DistinctCount == Cardinality(DistinctNodes)

\* the strictly increasing enumeration of the distinct nodes
SortedDistinct ==
    [i \in 1..DistinctCount |->
        CHOOSE x \in DistinctNodes : Cardinality({y \in DistinctNodes : y < x}) = i - 1]

Calls == 1..Len(results)

\* number of (slice, position) places of a result that hold node n
Places(r, n) ==
    Cardinality({pl \in (1..Len(r.node_lists)) \X (1..DistinctCount) :
                    /\ pl[2] <= Len(r.node_lists[pl[1]].list)
                    /\ r.node_lists[pl[1]].list[pl[2]] = n})

ParallelDivisible ==
    /\ ~serial_mode
    /\ Truthy(total_node_list)
    /\ num_rockets >= 1
    /\ DistinctCount % num_rockets = 0

\* C1: parallel mode, non-empty node list, distinct node count a multiple of
\* num_rockets: the call returns num_rockets slices, all of size
\* (distinct node count / num_rockets), and every distinct node is in exactly one
\* slice exactly once, the slices holding nothing else.
C1_Partition ==
    \A c \in Calls :
        ParallelDivisible =>
            /\ results[c].kind = "ok"
            /\ Len(results[c].node_lists) = num_rockets
            /\ \A i \in 1..Len(results[c].node_lists) :
                  /\ ~results[c].node_lists[i].isNone
                  /\ Len(results[c].node_lists[i].list) = DistinctCount \div num_rockets
                  /\ SetOf(results[c].node_lists[i].list) \subseteq DistinctNodes
            /\ \A n \in DistinctNodes : Places(results[c], n) = 1

C1_Witness ==
    /\ ParallelDivisible
    /\ Len(results) >= 1
    /\ num_rockets = 2
    /\ DistinctCount = 4
    /\ Len(total_node_list.list) = 4

ParallelIndivisible ==
    /\ ~serial_mode
    /\ Truthy(total_node_list)
    /\ num_rockets >= 1
    /\ DistinctCount % num_rockets # 0

\* C2: parallel mode, non-empty node list, distinct node count not evenly
\* divisible by num_rockets (num_rockets may exceed the node count): the call
\* raises ValueError and returns no shares.
C2_ParallelError ==
    \A c \in Calls :
        ParallelIndivisible =>
            /\ results[c].kind = "ValueError"
            /\ results[c].node_lists = <<>>
            /\ results[c].sub_nproc_list = <<>>

C2_Witness ==
    /\ ParallelIndivisible
    /\ Len(results) >= 1
    /\ num_rockets = 3
    /\ DistinctCount = 4

C2_WitnessMore ==
    /\ ParallelIndivisible
    /\ Len(results) >= 1
    /\ num_rockets > DistinctCount

SerialDivisible ==
    /\ serial_mode
    /\ Truthy(total_node_list)
    /\ num_rockets % DistinctCount = 0

\* C3: serial mode, non-empty node list, distinct node count dividing
\* num_rockets: num_rockets shares are returned, each with a one-node list and
\* processor count 1; every distinct node goes to num_rockets / (node count)
\* sub-jobs and sub-job i (0-based) gets the node at position i mod (node count)
\* of the sorted distinct nodes.
C3_SerialCyclic ==
    \A c \in Calls :
        SerialDivisible =>
            /\ results[c].kind = "ok"
            /\ Len(results[c].node_lists) = num_rockets
            /\ Len(results[c].sub_nproc_list) = num_rockets
            /\ \A i \in 1..Len(results[c].node_lists) :
                  /\ ~results[c].node_lists[i].isNone
                  /\ Len(results[c].node_lists[i].list) = 1
                  /\ results[c].node_lists[i].list[1] = SortedDistinct[((i - 1) % DistinctCount) + 1]
            /\ \A i \in 1..Len(results[c].sub_nproc_list) : results[c].sub_nproc_list[i] = 1
            /\ \A n \in DistinctNodes : Places(results[c], n) = num_rockets \div DistinctCount

C3_Witness ==
    /\ SerialDivisible
    /\ Len(results) >= 1
    /\ DistinctCount = 2
    /\ num_rockets = 4
    /\ total_node_list.list[1] > total_node_list.list[2]

SerialIndivisible ==
    /\ serial_mode
    /\ Truthy(total_node_list)
    /\ num_rockets % DistinctCount # 0

\* C4: serial mode, non-empty node list, num_rockets not evenly divisible by
\* the distinct node count: the call raises ValueError and returns no shares.
C4_SerialError ==
    \A c \in Calls :
        SerialIndivisible =>
            /\ results[c].kind = "ValueError"
            /\ results[c].node_lists = <<>>
            /\ results[c].sub_nproc_list = <<>>

C4_Witness ==
    /\ SerialIndivisible
    /\ Len(results) >= 1
    /\ num_rockets = 3
    /\ DistinctCount = 2

\* C5: node list None: the call does not fail and returns num_rockets shares,
\* each without a node list, with processor count ppn (parallel) or 1 (serial).
C5_NoNodeList ==
    \A c \in Calls :
        total_node_list.isNone =>
            /\ results[c].kind = "ok"
            /\ Len(results[c].node_lists) = num_rockets
            /\ Len(results[c].sub_nproc_list) = num_rockets
            /\ \A i \in 1..Len(results[c].node_lists) : results[c].node_lists[i] = NoneList
            /\ \A i \in 1..Len(results[c].sub_nproc_list) :
                  results[c].sub_nproc_list[i] = IF serial_mode THEN 1 ELSE ppn

C5_Witness ==
    /\ total_node_list.isNone
    /\ Len(results) >= 1
    /\ num_rockets = 4
    /\ ppn = 24
    /\ ~serial_mode

\* C6: two calls with the same arguments have the same outcome (the same
\* node_lists and sub_nproc_list in the same order, or the same error), whatever
\* order set(total_node_list) is enumerated in.
C6_Deterministic ==
    \A c, d \in Calls : results[c] = results[d]

C6_Witness ==
    /\ Len(results) = 2
    /\ Truthy(total_node_list)
    /\ DistinctCount >= 3
    /\ results[1].kind = "ok"
    /\ results[2].kind = "ok"

----------------------------------------------------------------------------
(* Properties of launch_job_packing_processes and ping_launch_jp, under Spec *)

Spawned == {i \in 1..Len(processes) : processes[i].state # "created"}

AllocationFailed ==
    /\ pc # "caller"
    /\ Len(results) = 1
    /\ results[1].kind # "ok"

\* C7: once split_node_lists has failed in launch_job_packing_processes, the
\* manager server is never started, no worker process is spawned and the ping
\* thread is never started.
C7_NoLaunchAfterAllocationError ==
    AllocationFailed =>
        /\ service = "notstarted"
        /\ shutdownCalls = 0
        /\ Spawned = {}
        /\ processes = <<>>
        /\ monState = "notstarted"
        /\ pc = "raised"

C7_Witness ==
    /\ AllocationFailed
    /\ results[1].kind = "ValueError"
    /\ pc = "raised"
    /\ raisedAt = "split"

\* C8: if the manager server was started, then whenever the orchestrator has
\* returned or raised, shutdown() has been called exactly once and the server
\* is not left running.
C8_ShutdownAlways ==
    (pc \in {"done", "raised"} /\ raisedAt # "split" /\ raisedAt # "run_manager") =>
        /\ shutdownCalls = 1
        /\ service = "shutdown"

\* C9: when os.kill raises OSError for an entry of a scan, ping_launch is not
\* invoked for that entry in that scan, the ping thread does not raise and stays
\* in its loop, and the entries the for loop has not reached stay to be
\* processed.
C9_DeadEntrySkipped ==
    [][ /\ (probedDead' \cap pinged') = {}
        /\ (monState = "probe" /\ probedDead' # probedDead) =>
              /\ monState' = "scan"
              /\ monError' = "none"
              /\ todo' = todo
              /\ pinged' = pinged
        /\ monError' # "os.kill" ]_vars

C9_Witness ==
    /\ monState = "wait"
    /\ probedDead # {}
    /\ pinged # {}
    /\ monError = "none"

\* C10: an unexpected error of ping_launch for one entry leaves the ping
\* thread running: it never ends the thread.
C10_PingFailureIsolated ==
    (monError = "ping_launch" /\ service = "running") => monState \in Running

AllExited == \A i \in 1..Len(processes) : processes[i].state = "exited"

\* C11: m.shutdown() happens only after the ping thread has left its loop: the
\* service is never shut down while the thread is still in ping_launch_jp, so
\* the thread never reads Running_IDs or calls ping_launch on a dead service.
C11_ShutdownAfterMonitorStopped ==
    service = "shutdown" => monState \notin Running

\* C12: the exit of a worker changes the state of no other worker and leaves
\* the ping thread, the stop event and the service as they are; the stop event
\* is set and the service shut down only when every spawned worker has exited.
C12_WorkersIndependent ==
    [][ /\ \A i \in 1..Len(processes) :
              (processes[i].state = "started" /\ processes'[i].state = "exited") =>
                  /\ \A j \in 1..Len(processes) : j # i => processes'[j] = processes[j]
                  /\ monState' = monState
                  /\ monError' = monError
                  /\ ping_stop' = ping_stop
                  /\ service' = service
        /\ (ping_stop' \/ service' = "shutdown") =>
              /\ Spawned' = 1..Len(processes')
              /\ AllExited' ]_vars

C12_Witness ==
    /\ Len(processes) = 2
    /\ processes[1].state = "exited"
    /\ processes[2].state = "started"
    /\ monState \in {"scan", "probe", "ping"}
    /\ ~ping_stop
    /\ service = "running"

C12_WitnessStop ==
    /\ Len(processes) = 2
    /\ AllExited
    /\ ping_stop
    /\ service = "shutdown"

Written(i) == i \in DOMAIN running_ids /\ running_ids[i] # NoLid

\* the worker died, its entry changed, the stop event was set or the ping
\* thread is no longer in its loop
Released(i) ==
    \/ ~Written(i)
    \/ processes[i].state # "started"
    \/ ping_stop
    \/ monState \notin Running

\* C13: an entry written by a live worker and left unchanged is pinged by the
\* running ping thread: whenever it has not been pinged in the current scan it
\* eventually is, and every scan starts from a fresh copy of Running_IDs, so
\* the scan that pings it is the current or the next one.  The first conjunct
\* is (Written(i) /\ monState \in Running /\ i \notin pinged) ~>
\* (i \in pinged \/ Released(i)) in always-eventually form: the two are
\* equivalent because the negation of the right-hand side implies the left.
C13_RegistryConvergence ==
    /\ \A i \in 1..OrchRockets : []<>(i \in pinged \/ Released(i))
    /\ [][(monState = "snapshot" /\ monState' = "scan") =>
              (snapshot' = running_ids /\ todo' = DOMAIN running_ids /\ pinged' = {})]_vars
    /\ [](monState = "wait" =>
              \A i \in DOMAIN snapshot :
                  (snapshot[i] # NoLid /\ processes[i].state = "started") => i \in pinged)

C13_Witness ==
    /\ Len(processes) = 2
    /\ Written(2)
    /\ 2 \notin DOMAIN snapshot
    /\ monState = "snapshot"
    /\ ENABLED MonitorSnapshot
    /\ 1 \in pinged
    /\ processes[2].state = "started"

C13_WitnessPinged ==
    /\ Len(processes) = 2
    /\ Written(2)
    /\ 2 \in pinged
    /\ processes[2].state = "started"
    /\ monState = "wait"
    /\ ~ping_stop

\* the entries of the current scan that hold a launch id
WithLid == {i \in DOMAIN snapshot : snapshot[i] # NoLid}

\* C15: in a scan, ping_launch is invoked only for entries of that scan's
\* snapshot that hold a launch id and whose pid passed os.kill in that scan,
\* once per such entry; an entry without a launch id is neither probed nor
\* pinged.
C15_PingOnlyLiveEntries ==
    [][ /\ pinged' \subseteq WithLid'
        /\ probedDead' \subseteq WithLid'
        /\ (pinged' \cap probedDead') = {}
        /\ ((pinged' \cup probedDead') \cap todo') = {}
        /\ monState' \in {"probe", "ping"} =>
              /\ cur' \in WithLid'
              /\ cur' \notin (pinged' \cup probedDead' \cup todo')
        /\ monState' = "ping" =>
              (monState \in {"probe", "ping"} /\ cur' = cur /\ snapshot' = snapshot)
        /\ pinged' # pinged =>
              \/ (monState = "ping" /\ pinged' = pinged \cup {cur})
              \/ (monState = "snapshot" /\ pinged' = {})
        /\ monState' = "wait" => (pinged' \cup probedDead') = WithLid' ]_vars

C15_Witness ==
    /\ monState = "wait"
    /\ DOMAIN snapshot = {1, 2}
    /\ snapshot[1] = NoLid
    /\ snapshot[2] # NoLid
    /\ pinged = {2}
    /\ probedDead = {}

\* C16: the ping thread leaves its loop only for Stopped and only when the stop
\* event is set, never through an error; once Stopped it neither scans nor
\* pings again; the stop event, once set, stays set.
C16_MonitorStateMachine ==
    [][ /\ (monState \in Running /\ monState' \notin Running) =>
              (monState' = "stopped" /\ ping_stop)
        /\ monState = "stopped" =>
              (monState' = "stopped" /\ snapshot' = snapshot /\ pinged' = pinged
                  /\ probedDead' = probedDead)
        /\ ping_stop => ping_stop' ]_vars

Shares == IF Len(results) = 1 /\ results[1].kind = "ok" THEN results[1].node_lists ELSE <<>>

C18_Termination ==
    /\ (pc = "join") ~> (ping_stop /\ service = "shutdown" /\ pc = "done")
    /\ (monState \in Running) ~> (monState = "stopped")
    /\ [](ping_stop => AllExited)

----------------------------------------------------------------------------
(* Further properties of split_node_lists, checked under SpecSplit *)

\* C14: parallel mode, non-empty node list, k = (distinct node count) /
\* num_rockets an integer: share i (0-based) is the run of the sorted distinct
\* nodes at positions i*k .. (i+1)*k - 1, in that order, and every share has
\* k * ppn processors.
C14_ContiguousSlices ==
    \A c \in Calls :
        ParallelDivisible =>
            LET k == DistinctCount \div num_rockets
            IN  /\ results[c].kind = "ok"
                /\ Len(results[c].node_lists) = num_rockets
                /\ Len(results[c].sub_nproc_list) = num_rockets
                /\ \A i \in 1..Len(results[c].node_lists) :
                      results[c].node_lists[i] =
                          ListOf([j \in 1..k |-> SortedDistinct[(i - 1) * k + j]])
                /\ \A i \in 1..Len(results[c].sub_nproc_list) :
                      results[c].sub_nproc_list[i] = k * ppn

C14_Witness ==
    /\ ParallelDivisible
    /\ Len(results) >= 1
    /\ num_rockets = 2
    /\ DistinctCount = 4
    /\ ppn = 24
    /\ results[1].sub_nproc_list = <<48, 48>>
    /\ total_node_list.list[1] > total_node_list.list[2]

\* the argument list with its nodes sorted and each kept once
Canonical == IF total_node_list.isNone THEN NoneList ELSE ListOf(SortedDistinct)

\* C19: the outcome depends only on the set of distinct nodes: a list gives the
\* outcome (shares or error) of the sorted list of its distinct nodes, so that
\* reordering the nodes or repeating some changes nothing, in both modes.
C19_DependsOnNodeSetOnly ==
    \A c \in Calls :
        /\ results[c] = split_node_lists(num_rockets, Canonical, ppn, serial_mode,
                                         Canonical.list)
        /\ Truthy(total_node_list) =>
              (results[c].kind = "ok" <=>
                  IF serial_mode THEN num_rockets % DistinctCount = 0
                  ELSE num_rockets >= 1 /\ DistinctCount % num_rockets = 0)

C19_Witness ==
    /\ Len(results) >= 1
    /\ Truthy(total_node_list)
    /\ Len(total_node_list.list) = 4
    /\ DistinctCount = 2
    /\ num_rockets = 2
    /\ total_node_list.list[1] > total_node_list.list[2]
    /\ results[1].kind = "ok"

\* C20: an empty node list is treated as None: no error, num_rockets shares
\* without a node list and with ppn (parallel) or 1 (serial) processors, the
\* outcome of the call with total_node_list = None.
C20_EmptyListAsNone ==
    \A c \in Calls :
        ((~total_node_list.isNone) /\ total_node_list.list = <<>>) =>
            /\ results[c] = Ok([i \in 1..num_rockets |-> NoneList],
                               [i \in 1..num_rockets |-> IF serial_mode THEN 1 ELSE ppn])
            /\ results[c] = split_node_lists(num_rockets, NoneList, ppn, serial_mode, <<>>)

C20_Witness ==
    /\ ~total_node_list.isNone
    /\ total_node_list.list = <<>>
    /\ Len(results) >= 1
    /\ num_rockets = 3
    /\ results[1].kind = "ok"

====
